---- MODULE Spec2Model ----
(***************************************************************************)
(* commlink: topic-based publish/subscribe on top of ZeroMQ PUB/SUB.       *)
(* The model follows src/commlink/subscriber.py (Subscriber) and           *)
(* src/commlink/publisher.py (Publisher).  The constructor flag that the   *)
(* specification calls keep_old is the attribute `buffer` of the source.   *)
(*                                                                         *)
(* A topic is a sequence of characters, so that the transport's prefix     *)
(* subscription and the "no space" rule are computed, not assumed.         *)
(* A transport socket is a record [filter, closed, queue]; queue holds the *)
(* messages the transport has delivered and the program has not yet read,  *)
(* each as the sequence of frames that serialize produced.                 *)
(***************************************************************************)
EXTENDS Integers, Sequences, FiniteSets, TLC

\* ---------------------------------------------------------------- bounds
MaxTopics == 2          \* longest topic list given to the constructor
MaxPublish == 2         \* messages published while the subscriber is connected
MaxGets == 2            \* get calls made on the subscriber
MaxForeign == 1         \* frames put on the wire by a publisher that is not ours
MaxPayload == 2         \* longest arbitrary payload handed to deserialize
Hwm == 2                \* messages a socket queues before it drops new ones

\* ---------------------------------------------------------------- inputs
TopicA == <<"a">>
TopicAB == <<"a", "b">>
TopicSpace == <<"a", " ">>
None == <<"None">>                       \* Python's None used as registry key

CtorTopics == {TopicA, TopicAB, TopicSpace}
PubTopics == {TopicA, TopicAB}
AnyPubTopics == PubTopics \cup {TopicSpace}
GetKeys == {None, TopicA, TopicAB}
Values == {"v1", "v2"}
Callers == {1}            \* the callers of a subscriber used by one thread
Threads == {1, 2}         \* every caller a subscriber can have

RECURSIVE SeqsUpTo(_, _)
SeqsUpTo(S, n) ==
    IF n = 0 THEN {<<>>}
    ELSE LET shorter == SeqsUpTo(S, n - 1)
         IN  shorter \cup {Append(s, x) : s \in shorter, x \in S}

TopicLists == SeqsUpTo(CtorTopics, MaxTopics)

\* ---------------------------------------------------------------- values
\* A Python value returned by get or held in the cache: either the bare
\* decoded object or the tuple (topic, object).
Bare(d) == [pair |-> FALSE, topic |-> <<>>, data |-> d]
Pair(t, d) == [pair |-> TRUE, topic |-> t, data |-> d]
NoVal == Bare("none")
\* a received message; n is its number in the delivery order of its socket (history)
NoMsg == [topic |-> <<>>, data |-> "none", n |-> 0]      \* last_msg = None

EmptyMap == [x \in {} |-> NoVal]
Put(f, k, v) == [x \in (DOMAIN f) \cup {k} |-> IF x = k THEN v ELSE f[x]]

VARIABLES
    state,          \* "uninit", "connected", "stopped", "term_blocked", "failed"
    buffer,         \* self.buffer
    topics,         \* the constructor's argument topics, as a list
    sockets,        \* every socket created on self.context, in creation order
    topic_sockets,  \* self._topic_sockets: key -> index into sockets
    cache,          \* self._cache: key -> value
    pc,             \* per caller: position inside get
    key,            \* per caller: the argument `topic` of the running get
    socket,         \* per caller: local socket = self._topic_sockets[topic]
    last_msg,       \* per caller: local last_msg / (topic_str, data_obj)
    result,         \* per caller: outcome of the last finished get
    stats,          \* per caller: what the running/last get did (history)
    published,      \* history: messages our Publisher sent while connected, in order
    returned,       \* history: values returned by successful get calls
    ngets,          \* history: number of get calls made
    legacy_serializer,  \* Publisher.legacy_serializer
    pub,            \* outcome of the last Publisher.publish call
    codec,          \* a serialize / deserialize computation on its own
    nforeign,       \* history: frames sent by publishers that are not ours
    received,       \* history: keys for which get took a decoded message off the socket
    order           \* history: delivery order of the messages taken, cached and returned

vars == <<state, buffer, topics, sockets, topic_sockets, cache, pc, key, socket,
          last_msg, result, stats, published, returned, ngets,
          legacy_serializer, pub, codec, nforeign, received, order>>

\* ---------------------------------------------------------------- serializer.py
\* A frame is a sequence of bytes (0..255).  Text is ASCII here, so
\* str.encode("utf-8") maps every character to its code point and
\* bytes.decode("utf-8") fails on a byte above 127.
Ord(c) ==
    CASE c = " " -> 32
      [] c = "1" -> 49
      [] c = "2" -> 50
      [] c = "a" -> 97
      [] c = "b" -> 98
      [] OTHER -> 63

Chr(n) ==
    CASE n = 32 -> " "
      [] n = 49 -> "1"
      [] n = 50 -> "2"
      [] n = 97 -> "a"
      [] n = 98 -> "b"
      [] OTHER -> "?"

utf8_encode(str) == [i \in 1..Len(str) |-> Ord(str[i])]
utf8_valid(bytes) == \A i \in 1..Len(bytes) : bytes[i] < 128
utf8_decode(bytes) == [i \in 1..Len(bytes) |-> Chr(bytes[i])]

\* pickle is an opaque engine: dumps gives a primary stream (and, with
\* protocol 5 and a buffer_callback, out-of-band buffers), loads is its
\* inverse.  A stream is <<128, protocol>> \o body \o <<46>>.  "img" stands
\* for an object backed by one raw buffer (an array); the payload of "v2"
\* and the raw buffer contain a space byte.
CodecValues == {"v1", "v2", "img"}
ImgRaw == <<7, 32, 7>>

PickleBody(v) ==
    CASE v = "v1" -> <<49>>
      [] v = "v2" -> <<50, 32>>
      [] v = "img" -> <<66>> \o ImgRaw

\* pickle.dumps(data): everything in band
pickle_dumps(v) == <<128, 4>> \o PickleBody(v) \o <<46>>

\* pickle.dumps(data, protocol=5, buffer_callback=buffers.append)
pickle_dumps5(v) ==
    IF v = "img"
    THEN [main |-> <<128, 5, 151, 46>>, buffers |-> <<ImgRaw>>]
    ELSE [main |-> <<128, 5>> \o PickleBody(v) \o <<46>>, buffers |-> <<>>]

\* pickle.loads(stream, buffers=buffers); "UnpicklingError" when the stream
\* is not a pickle or names a buffer that is not there
pickle_loads(stream, buffers) ==
    IF \/ Len(stream) < 4
       \/ stream[1] # 128
       \/ stream[2] \notin {4, 5}
       \/ stream[Len(stream)] # 46
    THEN "UnpicklingError"
    ELSE LET body == SubSeq(stream, 3, Len(stream) - 1)
         IN  IF body = <<151>> /\ stream[2] = 5
             THEN IF Len(buffers) >= 1 /\ buffers[1] = ImgRaw
                  THEN "img" ELSE "UnpicklingError"
             ELSE IF \E v \in CodecValues : PickleBody(v) = body
             THEN CHOOSE v \in CodecValues : PickleBody(v) = body
             ELSE "UnpicklingError"

\* serialize(topic, data, legacy)
serializeNoBuffers(topic, data, legacy) ==
    IF legacy
    THEN <<utf8_encode(topic), pickle_dumps(data)>>
    ELSE <<utf8_encode(topic), pickle_dumps5(data).main>>

serialize(topic, data, legacy) ==
    IF legacy
    THEN <<utf8_encode(topic), pickle_dumps(data)>>
    ELSE <<utf8_encode(topic), pickle_dumps5(data).main>> \o pickle_dumps5(data).buffers

\* msg.split(b" ", 1): <<whole>> without a space, else <<before, after>>
\* the first space
SplitLastSpace(msg) ==
    IF \A i \in 1..Len(msg) : msg[i] # 32 THEN <<msg>>
    ELSE LET i == CHOOSE j \in 1..Len(msg) :
                     msg[j] = 32 /\ \A l \in (j + 1)..Len(msg) : msg[l] # 32
         IN  <<SubSeq(msg, 1, i - 1), SubSeq(msg, i + 1, Len(msg))>>

SplitFirstSpace(msg) ==
    IF \A i \in 1..Len(msg) : msg[i] # 32 THEN <<msg>>
    ELSE LET i == CHOOSE j \in 1..Len(msg) :
                     msg[j] = 32 /\ \A l \in 1..(j - 1) : msg[l] # 32
         IN  <<SubSeq(msg, 1, i - 1), SubSeq(msg, i + 1, Len(msg))>>

DecodeFailure(kind) == [kind |-> kind, topic |-> <<>>, data |-> "none"]

\* topic = topic_bytes.decode("utf-8"); data = pickle.loads(stream, buffers)
DecodeParts(topic_bytes, stream, buffers) ==
    IF ~utf8_valid(topic_bytes) THEN DecodeFailure("UnicodeDecodeError")
    ELSE LET data == pickle_loads(stream, buffers)
         IN  IF data = "UnpicklingError"
             THEN DecodeFailure("UnpicklingError")
             ELSE [kind |-> "ok", topic |-> utf8_decode(topic_bytes), data |-> data]

\* deserialize(frames): one frame is the single-frame legacy format;
\* otherwise frame 0 is the topic, frame 1 the stream, frames 2.. the buffers
deserializeUnsplit(frames) ==
    IF Len(frames) = 1
    THEN DecodeParts(<<>>, frames[1], <<>>)
    ELSE DecodeParts(frames[1], frames[2], SubSeq(frames, 3, Len(frames)))

deserialize(frames) ==
    IF Len(frames) = 1
    THEN LET parts == SplitFirstSpace(frames[1])
         IN  IF Len(parts) < 2 THEN DecodeFailure("ValueError")
             ELSE DecodeParts(parts[1], parts[2], <<>>)
    ELSE DecodeParts(frames[1], frames[2], SubSeq(frames, 3, Len(frames)))

\* ---------------------------------------------------------------- transport
IsPrefix(p, t) ==
    /\ Len(p) <= Len(t)
    /\ \A i \in 1..Len(p) : p[i] = t[i]

\* zmq.SUBSCRIBE (setsockopt_string) is a prefix filter on the bytes of frame 0.
Matches(sock, frames) == IsPrefix(utf8_encode(sock.filter), frames[1])

new_socket(filter) == [filter |-> filter, closed |-> FALSE, queue |-> <<>>]

HasSpace(topic) == \E i \in 1..Len(topic) : topic[i] = " "

validate_topicAnything(topic) == TRUE

validate_topic(topic) == ~HasSpace(topic)

OpenSockets == {i \in 1..Len(sockets) : ~sockets[i].closed}

\* ---------------------------------------------------------------- Subscriber.__init__
\* for topic in topics: self._topic_sockets[topic] = self._create_topic_socket(topic)
\* A topic with a space raises ValueError out of the constructor at that
\* position; the sockets created before it stay as they are.
create_topic_socketsLazy(topic_list, i, socks, reg) ==
    [socks |-> socks, reg |-> reg,
     raised |-> \E j \in 1..Len(topic_list) : HasSpace(topic_list[j])]

RECURSIVE create_topic_sockets(_, _, _, _)
create_topic_sockets(topic_list, i, socks, reg) ==
    IF i > Len(topic_list)
    THEN [socks |-> socks, reg |-> reg, raised |-> FALSE]
    ELSE IF ~validate_topic(topic_list[i])
    THEN [socks |-> socks, reg |-> reg, raised |-> TRUE]
    ELSE create_topic_sockets(topic_list, i + 1,
                              Append(socks, new_socket(topic_list[i])),
                              Put(reg, topic_list[i], Len(socks) + 1))

NoResult == [kind |-> "none", key |-> None, val |-> NoVal]

\* What a get call did, kept until the caller's next call:
\*   nnb, nblk  non-blocking / blocking receives issued
\*   got        messages taken off the socket
\*   pending0   the socket's queue when the call began
\*   arrived    a message reached that socket since the call began
\*   cache0     self._cache when the call began
\*   prior      the value the last successful get of the same key returned
\*   stopped0   stop() had run when the call began
\*   first      the first message that reached that socket since the call began
NoStats == [nnb |-> 0, nblk |-> 0, got |-> 0, pending0 |-> <<>>, arrived |-> FALSE,
            cache0 |-> EmptyMap, prior |-> NoVal, stopped0 |-> FALSE,
            first |-> <<>>]

\* Delivery order (history).  Messages reach a socket in one order and
\* leave it in the same order; a message is numbered by its place in it.
\*   delivered  per socket: messages delivered to it so far
\*   cached     per key: number of the message the cache entry came from,
\*              written wherever the cache is written
\*   overlap    keys for which two get calls were running at once
NoOrder == [delivered |-> <<>>, cached |-> EmptyMap, overlap |-> {}]

\* history counters stop at MaxCount, above anything a bounded run reaches
MaxCount == MaxPublish + MaxForeign + 1
Inc(n) == IF n < MaxCount THEN n + 1 ELSE n

NoPub == [topic |-> <<>>, kind |-> "none", via |-> "none"]
NoOut == DecodeFailure("none")
CodecIdle == [pc |-> "off", src |-> "none", topic |-> <<>>, value |-> "none",
              legacy |-> FALSE, payload |-> <<>>, frames |-> <<>>, out |-> NoOut,
              single |-> <<>>, out1 |-> NoOut]

Init ==
    /\ state = "uninit"
    /\ buffer = FALSE
    /\ topics = <<>>
    /\ sockets = <<>>
    /\ topic_sockets = [x \in {} |-> 0]
    /\ cache = EmptyMap
    /\ pc = [th \in Threads |-> "idle"]
    /\ key = [th \in Threads |-> None]
    /\ socket = [th \in Threads |-> 0]
    /\ last_msg = [th \in Threads |-> NoMsg]
    /\ result = [th \in Threads |-> NoResult]
    /\ stats = [th \in Threads |-> NoStats]
    /\ published = <<>>
    /\ returned = <<>>
    /\ ngets = 0
    /\ legacy_serializer = FALSE
    /\ pub = NoPub
    /\ codec = CodecIdle
    /\ nforeign = 0
    /\ received = {}
    /\ order = NoOrder

Construct(topic_list, buf) ==
    /\ state = "uninit"
    /\ topics' = topic_list
    /\ LET r == create_topic_sockets(topic_list, 1, <<new_socket(<<>>)>>,
                                     Put([x \in {} |-> 0], None, 1))
       IN  /\ sockets' = r.socks
           /\ topic_sockets' = r.reg
           /\ state' = IF r.raised THEN "failed" ELSE "connected"
           /\ order' = [order EXCEPT !.delivered = [i \in 1..Len(r.socks) |-> 0]]
    /\ buffer' = buf
    /\ UNCHANGED <<cache, pc, key, socket, last_msg, result, stats, published,
                   returned, ngets, legacy_serializer, pub, codec, received, nforeign>>

\* ---------------------------------------------------------------- Publisher.publish
\* send_multipart hands one message to every connected socket whose
\* subscription is a prefix of the topic.
Deliver(socks, frames) ==
    [i \in 1..Len(socks) |->
        IF ~socks[i].closed /\ Matches(socks[i], frames)
        THEN [socks[i] EXCEPT !.queue = Append(@, frames)]
        ELSE socks[i]]

\* history: a message reached the socket a caller's get reads
Counted(frames) ==
    [i \in 1..Len(sockets) |->
        IF ~sockets[i].closed /\ Matches(sockets[i], frames)
        THEN Inc(order.delivered[i]) ELSE order.delivered[i]]

\* the number of the message at the head of socket s's queue
HeadNumber(s) == order.delivered[s] - Len(sockets[s].queue) + 1
Numbered(msg, s) == [msg EXCEPT !.n = HeadNumber(s)]
NumberOf(msg) == [topic |-> <<>>, data |-> msg.n]

NoteArrival(frames) ==
    [th \in Threads |->
        IF /\ socket[th] # 0
           /\ Matches(sockets[socket[th]], frames)
           /\ ~sockets[socket[th]].closed
        THEN [stats[th] EXCEPT !.arrived = TRUE,
                               !.first = IF stats[th].arrived THEN @ ELSE frames]
        ELSE stats[th]]

Undecodable(frames) == deserialize(frames).kind # "ok"

\* if " " in topic: raise ValueError("topic cannot contain spaces")
PublishRejectsNothing(topic) == FALSE

PublishRejects(topic) == HasSpace(topic)

\* publish(topic, data), entered through `via`
publish(topic, data, via) ==
    /\ state = "connected"
    /\ IF PublishRejects(topic)
       THEN /\ pub' = [topic |-> topic, kind |-> "ValueError", via |-> via]
            /\ UNCHANGED <<sockets, published, stats, order>>
       ELSE /\ Len(published) < MaxPublish
            /\ LET frames == serialize(topic, data, legacy_serializer)
               IN  /\ sockets' = Deliver(sockets, frames)
                   /\ published' = Append(published, frames)
                   /\ stats' = NoteArrival(frames)
                   /\ order' = [order EXCEPT !.delivered = Counted(frames)]
            /\ pub' = [topic |-> topic, kind |-> "sent", via |-> via]
    /\ UNCHANGED <<state, buffer, topics, topic_sockets, cache, pc, key, socket,
                   last_msg, result, returned, ngets, legacy_serializer, codec, received,
                   nforeign>>

Publish(topic, data) == publish(topic, data, "publish")

\* def __setitem__(self, topic, data): self.publish(topic, data)
SetItem(topic, data) == publish(topic, data, "setitem")

\* A publisher that is not ours (spec 7: MalformedMessage / DecodeError)
\* sends frames that deserialize rejects.
ForeignFrames == { <<utf8_encode(TopicA), <<0>>>>, <<utf8_encode(TopicA)>> }

ForeignSend(frames) ==
    /\ state = "connected"
    /\ nforeign < MaxForeign
    /\ nforeign' = nforeign + 1
    /\ sockets' = Deliver(sockets, frames)
    /\ stats' = NoteArrival(frames)
    /\ order' = [order EXCEPT !.delivered = Counted(frames)]
    /\ UNCHANGED <<state, buffer, topics, topic_sockets, cache, pc, key, socket,
                   last_msg, result, published, returned, ngets, legacy_serializer,
                   pub, codec, received>>

\* ---------------------------------------------------------------- Subscriber.get
\* recv_one: socket.recv_multipart(flags) followed by deserialize.
\*   closed socket         -> zmq.ZMQError
\*   NOBLOCK, empty queue  -> zmq.Again
\*   blocking, empty queue -> the caller waits
\*   otherwise             -> the oldest pending message
\*   undecodable frames    -> the exception deserialize raises
Received(frames) ==
    LET d == deserialize(frames)
    IN  IF d.kind = "ok"
        THEN [kind |-> "msg", msg |-> [topic |-> d.topic, data |-> d.data, n |-> 0]]
        ELSE [kind |-> "DecodeError", msg |-> NoMsg]

recv_oneIgnoreClosed(sock, noblock) ==
    IF sock.queue = <<>>
    THEN [kind |-> IF noblock THEN "Again" ELSE "wait", msg |-> NoMsg]
    ELSE Received(Head(sock.queue))

recv_one(sock, noblock) ==
    IF sock.closed THEN [kind |-> "ZMQError", msg |-> NoMsg]
    ELSE IF sock.queue = <<>>
    THEN [kind |-> IF noblock THEN "Again" ELSE "wait", msg |-> NoMsg]
    ELSE Received(Head(sock.queue))

\* recv_multipart took a message off the socket (also when deserialize
\* then raised)
Consumed(kind) == kind \in {"msg", "DecodeError"}

\* except zmq.Again: break  -- every other exception leaves get
CaughtAny(kind) == kind # "msg"

Caught(kind) == kind = "Again"

\* last_msg = recv_one(flags=zmq.NOBLOCK): the newer message replaces the older
DrainKeepFirst(prev, msg) == IF prev = NoMsg THEN msg ELSE prev

DrainKeep(prev, msg) == msg

\* if topic is None: self._cache[None] = (topic_str, data_obj)
\* else:             self._cache[topic] = data_obj
StoreCacheKeepOld(c, k, msg) ==
    IF k \in DOMAIN c THEN c
    ELSE IF k = None THEN Put(c, None, Pair(msg.topic, msg.data))
    ELSE Put(c, k, Bare(msg.data))

StoreCacheUnderNone(c, k, msg) == Put(c, None, Pair(msg.topic, msg.data))

StoreCache(c, k, msg) ==
    IF k = None THEN Put(c, None, Pair(msg.topic, msg.data))
    ELSE Put(c, k, Bare(msg.data))

\* return (topic_str, data_obj) if topic is None else data_obj
ReturnValueBare(k, msg) == Bare(msg.data)

ReturnValue(k, msg) ==
    IF k = None THEN Pair(msg.topic, msg.data) ELSE Bare(msg.data)

\* if topic in self._cache / elif topic is None and None in self._cache
CacheHitNever(c, k) == FALSE

CacheHit(c, k) == k \in DOMAIN c \/ (k = None /\ None \in DOMAIN c)

\* if not self.buffer: the drain loop comes first
FirstStepInverted(buf) == IF buf THEN "drain" ELSE "block"

FirstStep(buf) == IF ~buf THEN "drain" ELSE "block"

\* if not self.buffer: (after the blocking receive) update the cache
StoreAfterBlockingNever(buf, c, k, msg) == c

StoreAfterBlockingAlways(buf, c, k, msg) == StoreCache(c, k, msg)

StoreAfterBlocking(buf, c, k, msg) == IF ~buf THEN StoreCache(c, k, msg) ELSE c

\* if topic not in self._topic_sockets: raise KeyError
\* socket = self._topic_sockets[topic]
\* 0 stands for the raise; otherwise the index of the socket.
ResolveOrGlobal(reg, k) == IF k \notin DOMAIN reg THEN reg[None] ELSE reg[k]

Resolve(reg, k) == IF k \notin DOMAIN reg THEN 0 ELSE reg[k]

Sock(th) == socket[th]

RECURSIVE LastFor(_, _)
LastFor(hist, k) ==
    IF hist = <<>> THEN NoVal
    ELSE IF hist[Len(hist)].key = k THEN hist[Len(hist)].val
    ELSE LastFor(SubSeq(hist, 1, Len(hist) - 1), k)

Return(th, kind, val) ==
    /\ pc' = [pc EXCEPT ![th] = "idle"]
    /\ result' = [result EXCEPT ![th] = [kind |-> kind, key |-> key[th], val |-> val]]
    /\ returned' = IF kind = "value"
                   THEN Append(returned, [key |-> key[th], val |-> val,
                                          seq |-> IF last_msg[th] # NoMsg
                                                  THEN last_msg[th].n
                                                  ELSE order.cached[key[th]].data])
                   ELSE returned

GetCall(th, k) ==
    /\ state \in {"connected", "stopped"}
    /\ pc[th] = "idle"
    /\ ngets < MaxGets
    /\ ngets' = ngets + 1
    /\ key' = [key EXCEPT ![th] = k]
    /\ last_msg' = [last_msg EXCEPT ![th] = NoMsg]
    /\ order' = [order EXCEPT
                    !.overlap = IF \E o \in Threads \ {th} : pc[o] # "idle" /\ key[o] = k
                                THEN @ \cup {k} ELSE @]
    /\ LET s == Resolve(topic_sockets, k)
       IN  /\ socket' = [socket EXCEPT ![th] = s]
           /\ stats' = [stats EXCEPT ![th] =
                  [NoStats EXCEPT
                     !.pending0 = IF s = 0 THEN <<>> ELSE sockets[s].queue,
                     !.cache0 = cache,
                     !.prior = LastFor(returned, k),
                     !.stopped0 = (state = "stopped")]]
           /\ IF s = 0
              THEN /\ result' = [result EXCEPT ![th] =
                                     [kind |-> "KeyError", key |-> k, val |-> NoVal]]
                   /\ UNCHANGED pc
              ELSE /\ pc' = [pc EXCEPT ![th] = FirstStep(buffer)]
                   /\ UNCHANGED result
    /\ UNCHANGED <<state, buffer, topics, sockets, topic_sockets, cache, published,
                   returned, legacy_serializer, pub, codec, received, nforeign>>

\* one iteration of: while True: try: last_msg = recv_one(NOBLOCK) except Again: break
DrainRecv(th) ==
    /\ pc[th] = "drain"
    /\ LET r == recv_one(sockets[Sock(th)], TRUE)
       IN  /\ stats' = [stats EXCEPT ![th].nnb = Inc(@),
                                     ![th].got = IF Consumed(r.kind) THEN Inc(@) ELSE @]
           /\ sockets' = IF Consumed(r.kind)
                         THEN [sockets EXCEPT ![Sock(th)].queue = Tail(@)]
                         ELSE sockets
           /\ received' = IF r.kind = "msg" THEN received \cup {key[th]}
                                            ELSE received
           /\ IF r.kind = "msg"
              THEN /\ last_msg' = [last_msg EXCEPT ![th] =
                                       DrainKeep(@, Numbered(r.msg, Sock(th)))]
                   /\ UNCHANGED <<pc, result, returned>>
              ELSE IF Caught(r.kind)
              THEN /\ pc' = [pc EXCEPT ![th] = "drained"]
                   /\ UNCHANGED <<last_msg, result, returned>>
              ELSE /\ Return(th, r.kind, NoVal)
                   /\ UNCHANGED last_msg
    /\ UNCHANGED <<state, buffer, topics, topic_sockets, cache, key, socket, order,
                   published, ngets, legacy_serializer, pub, codec, nforeign>>

\* the code after the drain loop, up to the fall-through
AfterDrain(th) ==
    /\ pc[th] = "drained"
    /\ IF last_msg[th] # NoMsg
       THEN /\ cache' = StoreCache(cache, key[th], last_msg[th])
            /\ order' = [order EXCEPT
                            !.cached = StoreCache(@, key[th], NumberOf(last_msg[th]))]
            /\ Return(th, "value", ReturnValue(key[th], last_msg[th]))
       ELSE IF CacheHit(cache, key[th])
       THEN /\ Return(th, "value", cache[key[th]])
            /\ UNCHANGED <<cache, order>>
       ELSE /\ pc' = [pc EXCEPT ![th] = "block"]
            /\ UNCHANGED <<cache, result, returned, order>>
    /\ UNCHANGED <<state, buffer, topics, sockets, topic_sockets, key, socket,
                   last_msg, stats, published, ngets, legacy_serializer, pub, codec, received, nforeign>>

\* topic_str, data_obj = recv_one()
BlockRecv(th) ==
    /\ pc[th] = "block"
    /\ LET r == recv_one(sockets[Sock(th)], FALSE)
       IN  /\ r.kind # "wait"
           /\ stats' = [stats EXCEPT ![th].nblk = Inc(@),
                                     ![th].got = IF Consumed(r.kind) THEN Inc(@) ELSE @]
           /\ sockets' = IF Consumed(r.kind)
                         THEN [sockets EXCEPT ![Sock(th)].queue = Tail(@)]
                         ELSE sockets
           /\ received' = IF r.kind = "msg" THEN received \cup {key[th]}
                                            ELSE received
           /\ IF r.kind = "msg"
              THEN /\ last_msg' = [last_msg EXCEPT ![th] = Numbered(r.msg, Sock(th))]
                   /\ pc' = [pc EXCEPT ![th] = "recvd"]
                   /\ UNCHANGED <<result, returned>>
              ELSE /\ Return(th, r.kind, NoVal)
                   /\ UNCHANGED last_msg
    /\ UNCHANGED <<state, buffer, topics, topic_sockets, cache, key, socket, order,
                   published, ngets, legacy_serializer, pub, codec, nforeign>>

\* the cache update and return after the blocking receive
Finish(th) ==
    /\ pc[th] = "recvd"
    /\ cache' = StoreAfterBlocking(buffer, cache, key[th], last_msg[th])
    /\ order' = [order EXCEPT
                    !.cached = StoreAfterBlocking(buffer, @, key[th],
                                                  NumberOf(last_msg[th]))]
    /\ Return(th, "value", ReturnValue(key[th], last_msg[th]))
    /\ UNCHANGED <<state, buffer, topics, sockets, topic_sockets, key, socket,
                   last_msg, stats, published, ngets, legacy_serializer, pub, codec, received, nforeign>>

\* ---------------------------------------------------------------- Subscriber.stop
\* for socket in self._topic_sockets.values(): socket.close()
CloseRegistered(socks, reg) ==
    [i \in 1..Len(socks) |->
        IF \E k \in DOMAIN reg : reg[k] = i
        THEN [socks[i] EXCEPT !.closed = TRUE, !.queue = <<>>]
        ELSE socks[i]]

\* self.context.term() returns once every socket of the context is closed
\* and waits for that otherwise.
Stop ==
    /\ state = "connected"
    /\ \A th \in Threads : pc[th] = "idle"
    /\ sockets' = CloseRegistered(sockets, topic_sockets)
    /\ state' = IF \A i \in 1..Len(sockets') : sockets'[i].closed
                THEN "stopped" ELSE "term_blocked"
    /\ UNCHANGED <<buffer, topics, topic_sockets, cache, pc, key, socket, last_msg,
                   result, stats, published, returned, ngets, legacy_serializer,
                   pub, codec, received, order, nforeign>>

Next ==
    \/ \E topic_list \in TopicLists, buf \in BOOLEAN : Construct(topic_list, buf)
    \/ \E topic \in PubTopics, data \in Values : Publish(topic, data)
    \/ \E th \in Callers, k \in GetKeys : GetCall(th, k)
    \/ \E th \in Callers : DrainRecv(th)
    \/ \E th \in Callers : AfterDrain(th)
    \/ \E th \in Callers : BlockRecv(th)
    \/ \E th \in Callers : Finish(th)
    \/ Stop

Spec == Init /\ [][Next]_vars

\* ---------------------------------------------------------------- the publisher's calls
\* Both entry points of the publisher, with valid and invalid topics and in
\* either mode, against a subscriber that is reading.
SubscribedLists == {<<>>, <<TopicA>>, <<TopicA, TopicAB>>}

InitPub ==
    /\ state = "uninit"
    /\ buffer = FALSE
    /\ topics = <<>>
    /\ sockets = <<>>
    /\ topic_sockets = [x \in {} |-> 0]
    /\ cache = EmptyMap
    /\ pc = [th \in Threads |-> "idle"]
    /\ key = [th \in Threads |-> None]
    /\ socket = [th \in Threads |-> 0]
    /\ last_msg = [th \in Threads |-> NoMsg]
    /\ result = [th \in Threads |-> NoResult]
    /\ stats = [th \in Threads |-> NoStats]
    /\ published = <<>>
    /\ returned = <<>>
    /\ ngets = 0
    /\ legacy_serializer \in BOOLEAN
    /\ pub = NoPub
    /\ codec = CodecIdle
    /\ nforeign = 0
    /\ received = {}
    /\ order = NoOrder

NextPub ==
    \/ \E topic_list \in SubscribedLists, buf \in BOOLEAN : Construct(topic_list, buf)
    \/ \E topic \in AnyPubTopics, data \in Values : Publish(topic, data)
    \/ \E topic \in AnyPubTopics, data \in Values : SetItem(topic, data)
    \/ \E th \in Callers, k \in GetKeys : GetCall(th, k)
    \/ \E th \in Callers : DrainRecv(th)
    \/ \E th \in Callers : AfterDrain(th)
    \/ \E th \in Callers : BlockRecv(th)
    \/ \E th \in Callers : Finish(th)
    \/ Stop

SpecPub == InitPub /\ [][NextPub]_vars

\* ---------------------------------------------------------------- a foreign publisher
\* Our publisher and one that sends frames deserialize rejects, against a
\* subscriber that is reading.
SharedTopics == {TopicA}

NextForeign ==
    \/ \E topic_list \in SubscribedLists, buf \in BOOLEAN : Construct(topic_list, buf)
    \/ \E topic \in SharedTopics, data \in Values : Publish(topic, data)
    \/ \E frames \in ForeignFrames : ForeignSend(frames)
    \/ \E th \in Callers, k \in GetKeys : GetCall(th, k)
    \/ \E th \in Callers : DrainRecv(th)
    \/ \E th \in Callers : AfterDrain(th)
    \/ \E th \in Callers : BlockRecv(th)
    \/ \E th \in Callers : Finish(th)
    \/ Stop

SpecForeign == Init /\ [][NextForeign]_vars

\* ---------------------------------------------------------------- a publisher that never stops
\* A publisher keeps sending while a caller reads.  A socket whose queue has
\* reached its high-water mark drops what arrives.  What is sent here is not
\* recorded in `published`.
HasRoom(sock, frames) ==
    ~sock.closed /\ Matches(sock, frames) /\ Len(sock.queue) < Hwm

Stream(topic, data) ==
    /\ state = "connected"
    /\ ~PublishRejects(topic)
    /\ LET frames == serialize(topic, data, legacy_serializer)
       IN  /\ sockets' = [i \in 1..Len(sockets) |->
                             IF HasRoom(sockets[i], frames)
                             THEN [sockets[i] EXCEPT !.queue = Append(@, frames)]
                             ELSE sockets[i]]
           /\ stats' = [th \in Threads |->
                           IF socket[th] # 0 /\ HasRoom(sockets[socket[th]], frames)
                           THEN [stats[th] EXCEPT
                                    !.arrived = TRUE,
                                    !.first = IF stats[th].arrived THEN @ ELSE frames]
                           ELSE stats[th]]
           /\ order' = [order EXCEPT !.delivered =
                           [i \in 1..Len(sockets) |->
                               IF HasRoom(sockets[i], frames)
                               THEN Inc(order.delivered[i]) ELSE order.delivered[i]]]
    /\ UNCHANGED <<state, buffer, topics, topic_sockets, cache, pc, key, socket,
                   last_msg, result, published, returned, ngets, legacy_serializer,
                   pub, codec, nforeign, received>>

NextLive ==
    \/ \E topic_list \in {<<TopicA>>} : Construct(topic_list, FALSE)
    \/ \E topic \in SharedTopics, data \in Values : Stream(topic, data)
    \/ \E th \in Callers, k \in SharedTopics : GetCall(th, k)
    \/ \E th \in Callers : DrainRecv(th)
    \/ \E th \in Callers : AfterDrain(th)
    \/ \E th \in Callers : BlockRecv(th)
    \/ \E th \in Callers : Finish(th)

\* the calling thread keeps running, and so does the publisher
FairLive ==
    /\ \A th \in Callers :
          /\ WF_vars(DrainRecv(th))
          /\ WF_vars(AfterDrain(th))
          /\ WF_vars(BlockRecv(th))
          /\ WF_vars(Finish(th))
    /\ WF_vars(\E topic \in SharedTopics, data \in Values : Stream(topic, data))

SpecLive == Init /\ [][NextLive]_vars /\ FairLive

\* ---------------------------------------------------------------- two threads, one subscriber
\* Two callers use the same Subscriber with no lock: the steps of their get
\* calls interleave freely.
NextTwo ==
    \/ \E topic_list \in {<<TopicA>>}, buf \in BOOLEAN : Construct(topic_list, buf)
    \/ \E topic \in SharedTopics, data \in Values : Publish(topic, data)
    \/ \E th \in Threads, k \in GetKeys : GetCall(th, k)
    \/ \E th \in Threads : DrainRecv(th)
    \/ \E th \in Threads : AfterDrain(th)
    \/ \E th \in Threads : BlockRecv(th)
    \/ \E th \in Threads : Finish(th)
    \/ Stop

SpecTwo == Init /\ [][NextTwo]_vars

\* ---------------------------------------------------------------- the codec alone
\* serialize and deserialize applied to inputs drawn at the start: a topic,
\* a value, the mode, and an arbitrary payload byte string.
CodecTopics == {TopicA, TopicAB, TopicSpace}
PayloadBytes == {32, 49, 97}
Payloads ==
    SeqsUpTo(PayloadBytes, MaxPayload)
      \cup {pickle_dumps(v) : v \in CodecValues}
      \cup {pickle_dumps5(v).main : v \in CodecValues}

subscriberVars == <<state, buffer, topics, sockets, topic_sockets, cache, pc, key,
                    socket, last_msg, result, stats, published, returned, ngets,
                    legacy_serializer, pub, nforeign, received, order>>

InitCodec ==
    /\ state = "uninit"
    /\ buffer = FALSE
    /\ topics = <<>>
    /\ sockets = <<>>
    /\ topic_sockets = [x \in {} |-> 0]
    /\ cache = EmptyMap
    /\ pc = [th \in Threads |-> "idle"]
    /\ key = [th \in Threads |-> None]
    /\ socket = [th \in Threads |-> 0]
    /\ last_msg = [th \in Threads |-> NoMsg]
    /\ result = [th \in Threads |-> NoResult]
    /\ stats = [th \in Threads |-> NoStats]
    /\ published = <<>>
    /\ returned = <<>>
    /\ ngets = 0
    /\ legacy_serializer = FALSE
    /\ pub = NoPub
    /\ nforeign = 0
    /\ received = {}
    /\ order = NoOrder
    /\ codec \in {[CodecIdle EXCEPT !.pc = "input", !.topic = t, !.value = v,
                                    !.legacy = l, !.payload = p] :
                     t \in CodecTopics, v \in CodecValues, l \in BOOLEAN,
                     p \in Payloads}

\* frames = serialize(topic, data, legacy)
CodecSerialize ==
    /\ codec.pc = "input"
    /\ codec' = [codec EXCEPT !.pc = "frames", !.src = "serialize",
                    !.frames = serialize(codec.topic, codec.value, codec.legacy)]
    /\ UNCHANGED subscriberVars

\* a two-frame message [topic_bytes, payload_bytes] with any payload
CodecRawFrames ==
    /\ codec.pc = "input"
    /\ codec' = [codec EXCEPT !.pc = "frames", !.src = "raw2",
                    !.frames = <<utf8_encode(codec.topic), codec.payload>>]
    /\ UNCHANGED subscriberVars

\* a one-frame message with any content
CodecRawSingle ==
    /\ codec.pc = "input"
    /\ codec' = [codec EXCEPT !.pc = "frames", !.src = "raw1",
                    !.frames = <<codec.payload>>]
    /\ UNCHANGED subscriberVars

\* deserialize(frames)
CodecDeserialize ==
    /\ codec.pc = "frames"
    /\ codec' = [codec EXCEPT !.pc = "decoded", !.out = deserialize(codec.frames)]
    /\ UNCHANGED subscriberVars

\* old_style_msg = frames[0] + b" " + frames[1]; deserialize([old_style_msg])
CodecOldStyle ==
    /\ codec.pc = "decoded"
    /\ Len(codec.frames) = 2
    /\ LET old_style_msg == codec.frames[1] \o <<32>> \o codec.frames[2]
       IN  codec' = [codec EXCEPT !.pc = "joined", !.single = <<old_style_msg>>,
                        !.out1 = deserialize(<<old_style_msg>>)]
    /\ UNCHANGED subscriberVars

NextCodec ==
    \/ CodecSerialize
    \/ CodecRawFrames
    \/ CodecRawSingle
    \/ CodecDeserialize
    \/ CodecOldStyle

SpecCodec == InitCodec /\ [][NextCodec]_vars

TypeOK ==
    /\ state \in {"uninit", "connected", "stopped", "term_blocked", "failed"}
    /\ buffer \in BOOLEAN
    /\ \A th \in Threads : pc[th] \in {"idle", "drain", "drained", "block", "recvd"}
    /\ Len(published) <= MaxPublish
    /\ ngets <= MaxGets

\* ---------------------------------------------------------------- properties
Last(q) == q[Len(q)]
Idle(th) == pc[th] = "idle"
Registered(k) == k \in DOMAIN topic_sockets
Decoded(q) == SelectSeq(q, LAMBDA f : ~Undecodable(f))
PairsOf(q) ==
    LET d == Decoded(q)
    IN  [i \in 1..Len(d) |-> Pair(deserialize(d[i]).topic, deserialize(d[i]).data)]

\* C1  Conflation under burst.  buffer = FALSE, topic t registered: a get(t)
\* that began with N >= 1 messages pending on t's socket, none arriving since,
\* has returned the value of the last of them and left the socket's queue empty.
C1_ConflationUnderBurst ==
    \A th \in Callers :
        ( /\ Idle(th)
          /\ ~buffer
          /\ key[th] # None
          /\ Registered(key[th])
          /\ ~stats[th].stopped0
          /\ Len(stats[th].pending0) >= 1
          /\ ~stats[th].arrived )
        => /\ result[th].kind = "value"
           /\ result[th].key = key[th]
           /\ result[th].val.data = deserialize(Last(stats[th].pending0)).data
           /\ sockets[socket[th]].queue = <<>>

\* a get(t) that drained a burst of two or more messages has returned
C1_Witness ==
    \E th \in Callers :
        /\ Idle(th) /\ ~buffer /\ key[th] # None /\ Registered(key[th])
        /\ Len(stats[th].pending0) >= 2
        /\ ~stats[th].arrived
        /\ stats[th].got >= 2
        /\ result[th].kind = "value"
        /\ deserialize(stats[th].pending0[1]).data
             # deserialize(Last(stats[th].pending0)).data

\* C2  Cache persistence on starvation.  buffer = FALSE, subscriber running:
\* a get(key) made after an earlier get(key) returned a value, with nothing
\* pending on the key's socket and nothing arriving, returns the value the
\* earlier call returned, issues no blocking receive and leaves the whole
\* cache as it was.
C2_CachePersistence ==
    \A th \in Callers :
        ( /\ ~buffer
          /\ state = "connected"
          /\ Registered(key[th])
          /\ ~stats[th].stopped0
          /\ stats[th].prior # NoVal )
        => /\ pc[th] \notin {"block", "recvd"}
           /\ stats[th].nblk = 0
           /\ ( (Idle(th) /\ stats[th].pending0 = <<>> /\ ~stats[th].arrived)
                => /\ result[th].kind = "value"
                   /\ result[th].key = key[th]
                   /\ result[th].val = stats[th].prior
                   /\ stats[th].got = 0
                   /\ cache = stats[th].cache0 )

\* a starved get has returned the cached value of an earlier get
C2_Witness ==
    \E th \in Callers :
        /\ Idle(th) /\ ~buffer /\ state = "connected"
        /\ stats[th].prior # NoVal
        /\ stats[th].pending0 = <<>> /\ ~stats[th].arrived
        /\ result[th].kind = "value"
        /\ result[th].val = stats[th].prior
        /\ stats[th].nnb = 1

\* C3  get(topic) for a registered topic other than None returns the pair
\* (topic, value) with the requested topic first.
C3_ReturnsTopicValuePair ==
    \A th \in Callers :
        (Idle(th) /\ result[th].kind = "value" /\ result[th].key # None)
        => /\ result[th].val.pair
           /\ result[th].val.topic = result[th].key

\* C4  Unknown topic rejection.  A get(t) with t outside the registry ends at
\* once with KeyError in both modes; it issues no receive and changes no
\* socket, no registry entry and no cache entry.
C4_UnknownTopicRejected ==
    [][ \A th \in Callers :
          (ngets' = ngets + 1 /\ key'[th] \notin DOMAIN topic_sockets /\ pc[th] = "idle")
          => /\ pc'[th] = "idle"
             /\ result'[th] = [kind |-> "KeyError", key |-> key'[th], val |-> NoVal]
             /\ stats'[th].nnb = 0 /\ stats'[th].nblk = 0 /\ stats'[th].got = 0
             /\ sockets' = sockets
             /\ topic_sockets' = topic_sockets
             /\ cache' = cache
             /\ returned' = returned ]_vars

\* an unknown topic was rejected while messages were pending and cached
C4_Witness ==
    \E th \in Callers :
        /\ Idle(th)
        /\ result[th].kind = "KeyError"
        /\ ~Registered(result[th].key)
        /\ cache # EmptyMap
        /\ \E i \in 1..Len(sockets) : sockets[i].queue # <<>>

\* C5  After stop().  A get call made once stop() has run never reaches the
\* cache or a return of a value: every receive it issues is on a closed
\* socket and raises, so the call ends with an error, also for a cached key.
C5_GetAfterStopFails ==
    \A th \in Callers :
        stats[th].stopped0
        => /\ pc[th] \in {"idle", "drain", "block"}
           /\ (~Idle(th) => sockets[socket[th]].closed)
           /\ (Idle(th) => /\ result[th].key = key[th]
                           /\ result[th].kind =
                                IF Registered(key[th]) THEN "ZMQError" ELSE "KeyError")
           /\ LastFor(returned, key[th]) = stats[th].prior

\* a get on a cached key failed after stop()
C5_Witness ==
    \E th \in Callers :
        /\ state = "stopped"
        /\ stats[th].stopped0
        /\ Idle(th)
        /\ key[th] \in DOMAIN cache
        /\ result[th].kind = "ZMQError"

\* C6  Once stop() has closed the registered sockets, every socket created
\* on the context since construction is closed, whatever the topic list.
C6_StopClosesEverySocket ==
    state \in {"stopped", "term_blocked"}
    => \A i \in 1..Len(sockets) : sockets[i].closed

\* C7  Construction with any topic list (duplicates included) leaves 1 +
\* (number of distinct topics) open sockets, each reachable from the registry.
DistinctTopics == {topics[i] : i \in 1..Len(topics)}

C7_OneSocketPerDistinctTopic ==
    state = "connected"
    => /\ Cardinality(OpenSockets) = 1 + Cardinality(DistinctTopics)
       /\ \A i \in OpenSockets : \E k \in DOMAIN topic_sockets : topic_sockets[k] = i

\* C8  A value that get(t) returns from a received message was published
\* under exactly topic t, and t's cache entry is such a value.
C8_OnlyExactTopicReturned ==
    \A th \in Callers :
        (Idle(th) /\ result[th].kind = "value" /\ key[th] # None
                  /\ last_msg[th] # NoMsg)
        => last_msg[th].topic = key[th]

\* C9  buffer = TRUE: the values returned by get() on the global socket,
\* followed by the message being handed over and the messages still pending
\* there, are exactly the published messages in publication order.
GlobalReturned ==
    LET g == SelectSeq(returned, LAMBDA r : r.key = None)
    IN  [i \in 1..Len(g) |-> g[i].val]

GlobalInHand ==
    IF \E th \in Callers : pc[th] = "recvd" /\ key[th] = None
    THEN LET th == CHOOSE c \in Callers : pc[c] = "recvd" /\ key[c] = None
         IN  <<Pair(last_msg[th].topic, last_msg[th].data)>>
    ELSE <<>>

C9_GlobalFifoExactlyOnce ==
    (buffer /\ state = "connected")
    => GlobalReturned \o GlobalInHand \o PairsOf(sockets[1].queue)
         = PairsOf(published)

\* two different published messages were both returned by get()
C9_Witness ==
    /\ buffer /\ state = "connected"
    /\ Len(GlobalReturned) >= 2
    /\ GlobalReturned[1] # GlobalReturned[2]
    /\ GlobalReturned = PairsOf(SubSeq(published, 1, Len(GlobalReturned)))

\* C10  buffer = TRUE: a get call never enters the drain, issues exactly one
\* blocking receive before it ends, and the cache stays empty.
C10_BufferedGetBypassesCache ==
    buffer
    => /\ cache = EmptyMap
       /\ \A th \in Callers :
            /\ pc[th] \notin {"drain", "drained"}
            /\ stats[th].nnb = 0
            /\ (pc[th] = "recvd" => stats[th].nblk = 1)
            /\ (pc[th] = "block" => stats[th].nblk = 0)
            /\ ((Idle(th) /\ result[th].kind \in {"value", "ZMQError"}
                          /\ result[th].key = key[th])
                => stats[th].nblk = 1)

\* a buffered get has returned a value after one blocking receive
C10_Witness ==
    \E th \in Callers :
        /\ buffer /\ Idle(th)
        /\ result[th].kind = "value"
        /\ stats[th].nblk = 1 /\ stats[th].nnb = 0
        /\ ngets >= 2
        /\ cache = EmptyMap

\* C11  With buffer = False, get(key) reaches the blocking receive only
\* when the key has no cache entry and the drain found nothing; and once a
\* message has been received for the key, no get(key) blocks any more.
C11_BlocksOnlyBeforeFirstMessage ==
    \A th \in Callers :
        (~buffer /\ pc[th] = "block")
        => /\ ~CacheHit(cache, key[th])
           /\ stats[th].got = 0
           /\ key[th] \notin received

\* C12  With buffer = False, a get(key) whose drain found nothing and which
\* had no cache entry does one blocking receive, returns the first message
\* that then reaches the key's socket, and stores it as the cache entry.
C12_FallbackReturnsAndCachesFirstArrival ==
    \A th \in Callers :
        ( /\ ~buffer /\ Idle(th)
          /\ result[th].kind = "value"
          /\ stats[th].nnb = 1 /\ stats[th].pending0 = <<>>
          /\ ~CacheHit(stats[th].cache0, key[th]) )
        => /\ stats[th].nblk = 1
           /\ stats[th].got = 1
           /\ stats[th].arrived
           /\ LET d == deserialize(stats[th].first)
                  v == ReturnValue(key[th], [topic |-> d.topic, data |-> d.data])
              IN  /\ d.kind = "ok"
                  /\ result[th].val = v
                  /\ CacheHit(cache, key[th])
                  /\ cache[key[th]] = v

\* a second message arrived before the blocked call was served; the call
\* returned and cached the first
C12_Witness ==
    \E th \in Callers :
        /\ ~buffer /\ Idle(th) /\ key[th] = TopicA
        /\ result[th].kind = "value"
        /\ stats[th].nnb = 1 /\ stats[th].nblk = 1 /\ stats[th].pending0 = <<>>
        /\ stats[th].cache0 = EmptyMap
        /\ Len(published) = 2
        /\ deserialize(published[1]).data # deserialize(published[2]).data
        /\ Len(sockets[socket[th]].queue) = 1
        /\ cache[TopicA] = Bare(deserialize(published[1]).data)
        /\ result[th].val = cache[TopicA]

\* C13  With buffer = False, a socket holds at most the one most recent
\* inbound message between reads.
C13_SocketHoldsAtMostOne ==
    ~buffer => \A i \in 1..Len(sockets) : Len(sockets[i].queue) <= 1

\* C14  The constructor raises whenever a supplied topic contains a space,
\* wherever it stands in the list and whatever buffer is.
C14_SpaceTopicFailsConstruct ==
    (state # "uninit" /\ \E i \in 1..Len(topics) : HasSpace(topics[i]))
    => state = "failed"

\* the offending topic came last, after a valid one, with buffer = True
C14_Witness ==
    /\ state = "failed" /\ buffer
    /\ Len(topics) = 2
    /\ ~HasSpace(topics[1]) /\ HasSpace(topics[2])

\* a step that is a publish call, and what it may change
C15_PublishStep ==
    (pub' # pub \/ published' # published)
    => IF HasSpace(pub'.topic)
       THEN /\ pub'.kind = "ValueError"
            /\ published' = published
            /\ sockets' = sockets
       ELSE /\ pub'.kind = "sent"
            /\ Len(published') = Len(published) + 1
            /\ SubSeq(published', 1, Len(published)) = published
            /\ Last(published')[1] = utf8_encode(pub'.topic)
            /\ Len(sockets') = Len(sockets)
            /\ \A i \in 1..Len(sockets) :
                  \/ sockets'[i] = sockets[i]
                  \/ sockets'[i] = [sockets[i] EXCEPT
                                       !.queue = Append(@, Last(published'))]

\* C15  A publish call (through publish or through publisher[topic] = value)
\* with a space in the topic raises and leaves every pending queue as it
\* was; with a valid topic it sends exactly one multipart message whose
\* first frame is the topic.
C15_PublishValidatesThenSendsOne == [][C15_PublishStep]_vars

\* publisher["a "] = v was rejected after a message had been sent and was
\* still pending
C15_Witness ==
    /\ pub.kind = "ValueError" /\ pub.via = "setitem" /\ pub.topic = TopicSpace
    /\ Len(published) = 1
    /\ \E i \in 1..Len(sockets) : sockets[i].queue = published

\* C16  Round trip and cross-mode equality.  For a topic without a space,
\* deserialize(serialize(t, v, mode)) is (t, v) in either mode, so both modes
\* decode to the same result.
C16_RoundTrip ==
    (codec.pc \in {"decoded", "joined"} /\ codec.src = "serialize"
        /\ ~HasSpace(codec.topic))
    => /\ codec.out = [kind |-> "ok", topic |-> codec.topic, data |-> codec.value]
       /\ deserialize(serialize(codec.topic, codec.value, ~codec.legacy)) = codec.out

\* a buffer-backed value went through the default mode as three frames
C16_Witness ==
    /\ codec.pc = "decoded" /\ codec.src = "serialize"
    /\ ~codec.legacy /\ codec.value = "img"
    /\ Len(codec.frames) = 3
    /\ codec.out.kind = "ok" /\ codec.out.data = "img" /\ codec.out.topic = TopicAB

\* C17  Single-frame legacy compatibility.  For a topic without a space and
\* any payload bytes, deserialize([topic + b" " + payload]) gives what
\* deserialize([topic, payload]) gives.
C17_SingleFrameEquivalence ==
    (codec.pc = "joined" /\ ~HasSpace(codec.topic))
    => codec.out1 = codec.out

\* a payload with a space byte in it decoded the same both ways
C17_Witness ==
    /\ codec.pc = "joined" /\ codec.src = "raw2" /\ ~HasSpace(codec.topic)
    /\ \E i \in 1..Len(codec.payload) : codec.payload[i] = 32
    /\ codec.out.kind = "ok"
    /\ codec.out1 = codec.out

\* C18  A single frame without a space byte does not decode: deserialize
\* raises and gives no (topic, value).
C18_SingleFrameWithoutSpaceFails ==
    ( /\ codec.pc = "decoded"
      /\ Len(codec.frames) = 1
      /\ \A i \in 1..Len(codec.frames[1]) : codec.frames[1][i] # 32 )
    => codec.out = DecodeFailure("ValueError")

\* a single frame that is a well-formed pickle, but has no topic, was rejected
C18_Witness ==
    /\ codec.pc = "decoded" /\ codec.src = "raw1"
    /\ codec.frames = <<pickle_dumps("v1")>>
    /\ codec.out.kind = "ValueError"


\* C19  With buffer = False, between get calls the cache entry of a key is
\* the decoded value of the most recent message get took off that key's
\* socket and decoded.
C19_CacheIsLatestDecoded ==
    \A th \in Callers :
        (~buffer /\ Idle(th) /\ last_msg[th] # NoMsg)
        => /\ CacheHit(cache, key[th])
           /\ cache[key[th]] = ReturnValue(key[th], last_msg[th])

\* a drain iteration whose message deserialize rejects, and what it may change
C20_DrainStep ==
    \A th \in Callers :
        ( /\ ~buffer /\ pc[th] = "drain"
          /\ stats'[th].nnb = stats[th].nnb + 1
          /\ ~sockets[Sock(th)].closed
          /\ sockets[Sock(th)].queue # <<>>
          /\ Undecodable(Head(sockets[Sock(th)].queue)) )
        => /\ pc'[th] = "idle"
           /\ result'[th].kind = "DecodeError"
           /\ returned' = returned
           /\ cache' = cache /\ cache = stats[th].cache0
           /\ sockets' = [sockets EXCEPT ![Sock(th)].queue = Tail(@)]

\* C20  With buffer = False, when the drain loop takes a message that
\* deserialize rejects, get raises to its caller, the cache is what it was
\* when the call began, and the messages behind the rejected one stay on
\* the socket.
C20_DecodeErrorPropagates == [][C20_DrainStep]_vars

\* the drain decoded one message, raised on the next, and left a third pending
C20_Witness ==
    \E th \in Callers :
        /\ ~buffer /\ Idle(th) /\ key[th] = TopicA
        /\ result[th].kind = "DecodeError"
        /\ stats[th].nnb = 2 /\ stats[th].got = 2 /\ stats[th].nblk = 0
        /\ Len(stats[th].pending0) = 3
        /\ sockets[socket[th]].queue = SubSeq(stats[th].pending0, 3, 3)
        /\ ~Undecodable(sockets[socket[th]].queue[1])
        /\ cache = stats[th].cache0

\* C22  With buffer = False, get() on the global socket returns the
\* (topic, value) pair of the latest pending message, whatever topics the
\* pending messages have, leaves none of them pending, and stores the pair
\* under None; a later get() that finds nothing new returns that pair.
C22_GlobalGetReturnsLatestPair ==
    \A th \in Callers :
        ( /\ ~buffer /\ Idle(th) /\ key[th] = None
          /\ result[th].kind = "value"
          /\ stats[th].nblk = 0 /\ ~stats[th].arrived )
        => IF stats[th].pending0 # <<>>
           THEN LET d == deserialize(Last(stats[th].pending0))
                IN  /\ stats[th].got = Len(stats[th].pending0)
                    /\ Last(stats[th].pending0)[1] = utf8_encode(d.topic)
                    /\ result[th].val = Pair(d.topic, d.data)
                    /\ None \in DOMAIN cache
                    /\ cache[None] = Pair(d.topic, d.data)
           ELSE /\ None \in DOMAIN stats[th].cache0
                /\ stats[th].cache0[None].pair
                /\ result[th].val = stats[th].cache0[None]
                /\ cache = stats[th].cache0

\* two messages under different topics were pending; get() returned the
\* second with its own topic, and the next get(), with nothing new, returned
\* the same pair
C22_Witness ==
    \E th \in Callers :
        /\ ~buffer /\ Idle(th) /\ key[th] = None
        /\ result[th].kind = "value"
        /\ stats[th].nnb = 1 /\ stats[th].nblk = 0 /\ stats[th].pending0 = <<>>
        /\ Len(published) = 2
        /\ published[1][1] = utf8_encode(TopicA)
        /\ published[2][1] = utf8_encode(TopicAB)
        /\ Len(returned) = 2
        /\ returned[1].val = Pair(TopicAB, deserialize(published[2]).data)
        /\ returned[2] = returned[1]
        /\ result[th].val = returned[1].val

\* a step of caller th inside get
GetStep(th) ==
    \/ pc'[th] # pc[th]
    \/ ngets' # ngets
    \/ stats'[th].nnb # stats[th].nnb
    \/ stats'[th].nblk # stats[th].nblk

\* C23  The registry is fixed at construction: while connected its keys are
\* None and the distinct topics given to the constructor, and no step after
\* construction (a get that succeeds, fails or names an unknown topic
\* included) adds, replaces or removes an entry.
C23_RegistryFixedAtConstruction ==
    /\ [](state = "connected"
            => DOMAIN topic_sockets = {None} \cup DistinctTopics)
    /\ [][state # "uninit" => topic_sockets' = topic_sockets]_vars

\* a get of an unknown topic and a successful get have run on a subscriber
\* built from a list with a repeated topic
C23_Witness ==
    /\ state = "connected"
    /\ topics = <<TopicA, TopicA>>
    /\ DOMAIN topic_sockets = {None, TopicA}
    /\ \E th \in Callers : Idle(th) /\ result[th].kind = "KeyError"
    /\ returned # <<>>

\* C26  A get(k) call takes messages only off the socket registered for k
\* and writes only the cache entry of k; every other socket and cache entry
\* is unchanged by it; the cache keys are always registry keys.
C26_PerKeyIsolation ==
    /\ [](DOMAIN cache \subseteq DOMAIN topic_sockets)
    /\ [][ \A th \in Callers :
             GetStep(th)
             => /\ socket'[th] # 0 => socket'[th] = topic_sockets[key'[th]]
                /\ Len(sockets') = Len(sockets)
                /\ \A i \in 1..Len(sockets) :
                      i # socket'[th] => sockets'[i] = sockets[i]
                /\ DOMAIN cache' \subseteq DOMAIN cache \cup {key'[th]}
                /\ \A k \in DOMAIN cache :
                      k # key'[th] => k \in DOMAIN cache' /\ cache'[k] = cache[k] ]_vars

\* get('a') returned a new value while get() had its own pair cached and a
\* message was left pending on the global socket
C26_Witness ==
    \E th \in Callers :
        /\ ~buffer /\ Idle(th) /\ key[th] = TopicA
        /\ result[th].kind = "value" /\ stats[th].got = 2
        /\ DOMAIN cache = {None, TopicA}
        /\ cache[None].data # cache[TopicA].data
        /\ sockets[topic_sockets[None]].queue # <<>>
        /\ sockets[topic_sockets[TopicA]].queue = <<>>

\* C27  When the constructor fails on a topic with a space, no socket it
\* opened is left open.
C27_FailedConstructLeavesNothingOpen ==
    state = "failed" => OpenSockets = {}

\* the messages delivered to socket s, in delivery order
DeliveredTo(s) == SelectSeq(published, LAMBDA f : Matches(sockets[s], f))

\* the cache entry of k comes from a message delivered before one that a
\* get(k) has returned
StaleKey(k) ==
    /\ k \in DOMAIN cache
    /\ k \in DOMAIN order.cached
    /\ \E i \in 1..Len(returned) :
          returned[i].key = k /\ order.cached[k].data < returned[i].seq

\* C24  Stale cache entries come from overlapping calls only: with
\* buffer = False, the cache entry of a key is older than a message a
\* get(key) has returned only if two get(key) calls ran at the same time
\* (and such an interleaving exists: the witness).
C24_StaleOnlyWhenCallsOverlap ==
    ~buffer => \A k \in GetKeys : StaleKey(k) => k \in order.overlap

\* two get('a') calls overlapped; one returned the second message, after
\* which the other stored and returned the first
C24_Witness ==
    /\ ~buffer /\ state = "connected"
    /\ \A th \in Threads : Idle(th) /\ key[th] = TopicA /\ result[th].kind = "value"
    /\ StaleKey(TopicA)
    /\ Len(returned) = 2
    /\ returned[1].seq = 2 /\ returned[2].seq = 1
    /\ returned[1].val # returned[2].val
    /\ cache[TopicA] = returned[2].val

\* C25  With buffer = False and get calls made one at a time, what the
\* get(key) calls return never goes backwards in the delivery order of the
\* key's socket: every returned value is a message delivered to that socket,
\* its place in the delivery order never decreases from one call to a later
\* one, and the cache entry is never older than a message already returned.
C25_MonotonicFreshness ==
    ~buffer
    => /\ \A i \in 1..Len(returned) :
             LET s == topic_sockets[returned[i].key]
                 n == returned[i].seq
             IN  /\ n \in 1..Len(DeliveredTo(s))
                 /\ LET d == deserialize(DeliveredTo(s)[n])
                    IN  returned[i].val = ReturnValue(returned[i].key, d)
       /\ \A i \in 1..Len(returned) : \A j \in 1..Len(returned) :
             (i < j /\ returned[i].key = returned[j].key)
             => returned[i].seq <= returned[j].seq
       /\ \A k \in GetKeys : ~StaleKey(k)

\* two get('a') calls returned the first and then the second message, of
\* different values
C25_Witness ==
    /\ ~buffer
    /\ Len(returned) = 2
    /\ returned[1].key = TopicA /\ returned[2].key = TopicA
    /\ returned[1].seq = 1 /\ returned[2].seq = 2
    /\ returned[1].val # returned[2].val
    /\ cache[TopicA] = returned[2].val

\* C21  The drain loop of a buffer = False get ends: a call that is
\* draining leaves the loop after finitely many non-blocking receives, also
\* while a publisher keeps delivering to the socket.
C21_DrainLoopEnds ==
    \A th \in Callers : (pc[th] = "drain") ~> (pc[th] # "drain")

====
